---- MODULE Spec2Model ----
(***************************************************************************)
(* Transcript-correction pipeline of mahabir-audio-processing:             *)
(*   services/openai_client.py      OpenAIClient                           *)
(*   services/correction_service.py CorrectionService                      *)
(*   database/models.py             RawTranscript, ProcessedEntry          *)
(*   database/db_operations.py      DatabaseManager                        *)
(* Python objects are records; a Python dict is a function whose DOMAIN is *)
(* its key set, so a missing key or attribute is a missing field.          *)
(***************************************************************************)
EXTENDS Integers, Sequences, FiniteSets, TLC

VARIABLES
    m_pc,          \* position of the map_corrections_to_entries harness
    m_entries,     \* argument original_entries
    m_corrections, \* argument corrections
    m_mapped,      \* the returned list
    content,       \* raw_transcripts.file_content, as the blocks it holds
    status,        \* raw_transcripts.processing_status, per transcript id
    store,         \* processed_entries table, row i has id i
    lp,            \* the process_srt_file invocation in progress
    rp,            \* the process_entries_with_openai invocations, per worker
    rule,          \* the local corrector's verdict needs_openai, per text
    lastWrite,     \* history: the status write made by the latest step, if any
    c_pc,          \* position of the correct_transcript_batch harness
    c_retry_count, \* argument retry_count
    c_attempt,     \* the loop variable attempt
    c_events,      \* history: the remote invocations and sleeps, in order
    c_failures,    \* history: the exception class of each failed attempt
    c_result,      \* what the call returned or raised
    b_pc,          \* position of the create_batches harness
    b_entries,     \* argument entries
    b_target,      \* argument target_batch_size
    b_max_tokens,  \* argument max_tokens
    b_batches      \* the returned list of batches

mapVars == <<m_pc, m_entries, m_corrections, m_mapped>>

svcVars == <<content, status, store, lp, rp, rule, lastWrite>>

retryVars == <<c_pc, c_retry_count, c_attempt, c_events, c_failures, c_result>>

batchVars == <<b_pc, b_entries, b_target, b_max_tokens, b_batches>>

harnessVars == <<mapVars, retryVars, batchVars>>

vars == <<m_pc, m_entries, m_corrections, m_mapped,
          content, status, store, lp, rp, rule, lastWrite,
          c_pc, c_retry_count, c_attempt, c_events, c_failures, c_result,
          b_pc, b_entries, b_target, b_max_tokens, b_batches>>

----------------------------------------------------------------------------
(* Bounds of the model *)

MaxLen == 3        \* longest entry list / correction list handed to the mapper
MaxCues == 2       \* most blocks in a stored transcript
MaxStore == 4      \* most rows of processed_entries
MaxIds == 2        \* longest entry_ids list of a remote pass
MaxIdsConc == 1    \* the same, when two remote passes overlap
MaxRetry == 4      \* largest retry_count handed to correct_transcript_batch
MaxEntries == 5    \* longest entry list handed to create_batches
MaxTarget == 3     \* largest target_batch_size handed to create_batches
MaxTokens == 6     \* largest max_tokens handed to create_batches

----------------------------------------------------------------------------
(* Generic helpers *)

\* Python dict.get(key, default)
Get(d, key, default) == IF key \in DOMAIN d THEN d[key] ELSE default

\* Python hasattr / "key in dict"
HasAttr(o, name) == name \in DOMAIN o

SeqsUpTo(S, n) == UNION {[1..k -> S] : k \in 0..n}

Texts == {"a", "bb"}

----------------------------------------------------------------------------
(* services/srt_parser.py SRTEntry, as used by openai_client.py:86-88,181 *)

SRTEntry(index, start_time, end_time, text) ==
    [index |-> index, start_time |-> start_time, end_time |-> end_time, text |-> text]

----------------------------------------------------------------------------
(* OpenAIClient.map_corrections_to_entries, openai_client.py:162-193 *)

\* The body of the loop for position i: lines 177-192.
MappedAtByText(original_entries, corrections, i) ==
    LET entry == original_entries[i]
        hits == {j \in 1..Len(corrections) :
                    Get(corrections[j], "original_text", "") = entry.text}
    IN  IF hits # {}
        THEN LET correction == corrections[CHOOSE j \in hits : \A k \in hits : j <= k]
             IN  [entry |-> entry,
                  corrected_text |-> Get(correction, "corrected_text", entry.text),
                  corrections |-> Get(correction, "corrections_made", <<>>),
                  needs_review |-> Get(correction, "needs_review", FALSE)]
        ELSE [entry |-> entry, corrected_text |-> entry.text,
              corrections |-> <<>>, needs_review |-> FALSE]

MappedAtFlagsMissing(original_entries, corrections, i) ==
    LET entry == original_entries[i]
    IN  IF i <= Len(corrections)
        THEN LET correction == corrections[i]
             IN  [entry |-> entry,
                  corrected_text |-> Get(correction, "corrected_text", entry.text),
                  corrections |-> Get(correction, "corrections_made", <<>>),
                  needs_review |-> Get(correction, "needs_review", FALSE)]
        ELSE [entry |-> entry, corrected_text |-> entry.text,
              corrections |-> <<>>, needs_review |-> TRUE]

MappedAt(original_entries, corrections, i) ==
    LET entry == original_entries[i]
    IN  IF i <= Len(corrections)
        THEN LET correction == corrections[i]
             IN  [entry |-> entry,
                  corrected_text |-> Get(correction, "corrected_text", entry.text),
                  corrections |-> Get(correction, "corrections_made", <<>>),
                  needs_review |-> Get(correction, "needs_review", FALSE)]
        ELSE [entry |-> entry, corrected_text |-> entry.text,
              corrections |-> <<>>, needs_review |-> FALSE]

\* entry.text is read in both branches (as the eagerly evaluated default of
\* .get at line 181, and at line 189), so an entry object without a text
\* attribute makes the call raise AttributeError.
map_raises(original_entries) ==
    \E i \in 1..Len(original_entries) : ~HasAttr(original_entries[i], "text")

\* The records of the positions both lists have.
map_zipped(original_entries, corrections) ==
    [i \in 1..(IF Len(corrections) < Len(original_entries)
               THEN Len(corrections) ELSE Len(original_entries)) |->
        MappedAt(original_entries, corrections, i)]

map_corrections_to_entries(original_entries, corrections) ==
    [i \in 1..Len(original_entries) |-> MappedAt(original_entries, corrections, i)]


----------------------------------------------------------------------------
(* OpenAIClient.correct_transcript_batch, openai_client.py:92-135: the     *)
(* retry loop.  An attempt either returns the parsed response or fails     *)
(* with an exception; json.loads raises JSONDecodeError on a non-JSON      *)
(* response, every other failure is some other Exception.                  *)

DefaultRetryCount == 3   \* retry_count: int = 3

FailureClasses == {"JSONDecodeError", "APITimeoutError", "APIConnectionError"}

\* Lines 125 and 130: the guard of the sleep and of "continue".
RetriesAfterLast(attempt, retry_count) == attempt < retry_count

ShouldRetry(attempt, retry_count) == attempt < retry_count - 1

\* Lines 126 and 131: time.sleep(2 ** attempt).
BackoffDoubled(attempt) == 2 ^ (attempt + 1)

BackoffDelay(attempt) == 2 ^ attempt

\* Lines 124, 128, 129, 133: the exception raised after the last attempt.
RaisedAlwaysGeneric(failure) == [kind |-> "Exception", line |-> 133]

RaisedFor(failure) ==
    IF failure = "JSONDecodeError"
    THEN [kind |-> "ValueError", line |-> 128]
    ELSE [kind |-> "Exception", line |-> 133]

CallEvent == [ev |-> "call", secs |-> 0]

SleepEvent(secs) == [ev |-> "sleep", secs |-> secs]

\* Lines 106-133, one iteration of the loop: the remote invocation, then
\* the return of line 122 or one of the two handlers.
correct_transcript_batch_attempt(outcome) ==
    /\ c_pc = "loop"
    /\ c_attempt < c_retry_count
    /\ IF outcome = "ok"
       THEN /\ c_events' = Append(c_events, CallEvent)
            /\ c_result' = [kind |-> "corrections", line |-> 122]
            /\ c_pc' = "returned"
            /\ UNCHANGED <<c_attempt, c_failures>>
       ELSE /\ c_failures' = Append(c_failures, outcome)
            /\ IF ShouldRetry(c_attempt, c_retry_count)
               THEN /\ c_events' = c_events \o
                                     <<CallEvent, SleepEvent(BackoffDelay(c_attempt))>>
                    /\ c_attempt' = c_attempt + 1
                    /\ UNCHANGED <<c_pc, c_result>>
               ELSE /\ c_events' = Append(c_events, CallEvent)
                    /\ c_result' = RaisedFor(outcome)
                    /\ c_pc' = "raised"
                    /\ UNCHANGED c_attempt
    /\ UNCHANGED <<c_retry_count, mapVars, svcVars, batchVars>>

\* Line 135: the loop ended without a return or a raise.
correct_transcript_batch_exhausted ==
    /\ c_pc = "loop"
    /\ c_attempt >= c_retry_count
    /\ c_result' = [kind |-> "Exception", line |-> 135]
    /\ c_pc' = "raised"
    /\ UNCHANGED <<c_retry_count, c_attempt, c_events, c_failures,
                   mapVars, svcVars, batchVars>>

----------------------------------------------------------------------------
(* Configuration imported at correction_service.py:14 (config.py) *)

BATCH_SIZE == 2          \* target_batch_size of create_batches
MAX_BATCH_TOKENS == 2    \* max_tokens of create_batches

----------------------------------------------------------------------------
(* database/models.py *)

Statuses == {"pending", "processing", "processed", "openai_processing",
             "completed", "error"}

Transcripts == {1}       \* ids of the rows of raw_transcripts
FileIds == {1, 2}        \* file_id arguments; 2 names no row

\* ProcessedEntry.__init__, models.py:60-88, for the keyword arguments passed
\* at correction_service.py:181-191; id, api_cost and openai_processed keep
\* their defaults (None is 0 here).  created_at is left out.
ProcessedEntryWithText(raw_transcript_id, timestamp_start, timestamp_end, original_text, corrected_text, corrections_made, confidence_score, needs_review, needs_openai) ==
    [id |-> 0, raw_transcript_id |-> raw_transcript_id,
     timestamp_start |-> timestamp_start, timestamp_end |-> timestamp_end,
     original_text |-> original_text, corrected_text |-> corrected_text,
     corrections_made |-> corrections_made, confidence_score |-> confidence_score,
     needs_review |-> needs_review, api_cost |-> 0,
     needs_openai |-> needs_openai, openai_processed |-> FALSE,
     text |-> original_text]

ProcessedEntry(raw_transcript_id, timestamp_start, timestamp_end, original_text, corrected_text, corrections_made, confidence_score, needs_review, needs_openai) ==
    [id |-> 0, raw_transcript_id |-> raw_transcript_id,
     timestamp_start |-> timestamp_start, timestamp_end |-> timestamp_end,
     original_text |-> original_text, corrected_text |-> corrected_text,
     corrections_made |-> corrections_made, confidence_score |-> confidence_score,
     needs_review |-> needs_review, api_cost |-> 0,
     needs_openai |-> needs_openai, openai_processed |-> FALSE]

----------------------------------------------------------------------------
(* services/srt_parser.py SRTParser: parse_srt_file and create_batches *)

TextLen(t) == IF t = "a" THEN 1 ELSE 2

\* The cheap token proxy: character count divided by a constant (here 1).
EstimateTokens(entry) == TextLen(entry.text)

\* The valid blocks, in order.
RECURSIVE ValidBlocks(_)
ValidBlocks(blocks) ==
    IF blocks = <<>> THEN <<>>
    ELSE IF Head(blocks).valid
         THEN <<Head(blocks)>> \o ValidBlocks(Tail(blocks))
         ELSE ValidBlocks(Tail(blocks))

\* Malformed blocks are skipped; the output is renumbered from 1.
parse_srt_file(file_content) ==
    LET ok == ValidBlocks(file_content)
    IN  [i \in 1..Len(ok) |->
            SRTEntry(i, ok[i].start_time, ok[i].end_time, ok[i].text)]

\* Greedy accumulation: close the current batch when the next entry would
\* exceed the count or the token budget; an entry is never dropped.
\* The entry count would exceed the target.
CountFullLate(cur, target_batch_size) == Len(cur) > target_batch_size

CountFull(cur, target_batch_size) == Len(cur) + 1 > target_batch_size

\* The estimated token count would exceed the budget.
TokensNeverFull(curTokens, entry, max_tokens) == FALSE

TokensFull(curTokens, entry, max_tokens) ==
    curTokens + EstimateTokens(entry) > max_tokens

\* The end of the input: the batch being filled is the last one.
FlushDropsLast(acc, cur) == acc

Flush(acc, cur) == IF cur = <<>> THEN acc ELSE Append(acc, cur)

RECURSIVE BatchesFrom(_, _, _, _, _, _, _)
BatchesFrom(entries, i, cur, curTokens, acc, target_batch_size, max_tokens) ==
    IF i > Len(entries)
    THEN Flush(acc, cur)
    ELSE IF /\ cur # <<>>
            /\ \/ CountFull(cur, target_batch_size)
               \/ TokensFull(curTokens, entries[i], max_tokens)
         THEN BatchesFrom(entries, i, <<>>, 0, Append(acc, cur),
                          target_batch_size, max_tokens)
         ELSE BatchesFrom(entries, i + 1, Append(cur, entries[i]),
                          curTokens + EstimateTokens(entries[i]), acc,
                          target_batch_size, max_tokens)

create_batches(entries, target_batch_size, max_tokens) ==
    BatchesFrom(entries, 1, <<>>, 0, <<>>, target_batch_size, max_tokens)

----------------------------------------------------------------------------
(* services/local_processor.py LocalProcessor.process_entries: a black box *)
(* returning one result per entry, deterministic in the entry's text;      *)
(* flags[t] is its verdict on text t.                                      *)

process_entries(batch, flags) ==
    [i \in 1..Len(batch) |->
        [corrected_text |-> batch[i].text, corrections |-> <<>>,
         confidence |-> 1, needs_review |-> flags[batch[i].text],
         needs_openai |-> flags[batch[i].text]]]

----------------------------------------------------------------------------
(* database/db_operations.py DatabaseManager *)

NoWrite == [tid |-> 0, from |-> "none", to |-> "none", line |-> 0]

\* A step that makes no status write.
NoStatusWrite == status' = status /\ lastWrite' = NoWrite

\* update_raw_transcript_status, db_operations.py:52-54: one atomic write;
\* an id that names no row changes nothing.  line is the call site.
update_raw_transcript_status(transcript_id, new_status, line) ==
    IF transcript_id \in Transcripts
    THEN /\ status' = [status EXCEPT ![transcript_id] = new_status]
         /\ lastWrite' = [tid |-> transcript_id, from |-> status[transcript_id],
                          to |-> new_status, line |-> line]
    ELSE NoStatusWrite

\* batch_insert_processed_entries, db_operations.py:65-67: one transaction
\* appending the rows, ids assigned in order.
batch_insert_processed_entries(rows, entries) ==
    rows \o [i \in 1..Len(entries) |-> [entries[i] EXCEPT !.id = Len(rows) + i]]

\* get_processed_entry, db_operations.py:69-71: the row or None.
EntryExists(rows, entry_id) == entry_id \in 1..Len(rows)

\* update_processed_entries_after_openai, db_operations.py:81-83: writes the
\* remote result of every merge record onto the row of its entry.
RECURSIVE update_processed_entries_after_openai(_, _)
update_processed_entries_after_openai(rows, updated_entries) ==
    IF updated_entries = <<>> THEN rows
    ELSE LET r == Head(updated_entries)
             id == r.entry.id
             new == IF id \in 1..Len(rows)
                    THEN [rows EXCEPT ![id] =
                            [@ EXCEPT !.corrected_text = r.corrected_text,
                                      !.corrections_made = r.corrections,
                                      !.needs_review = r.needs_review,
                                      !.openai_processed = TRUE,
                                      !.needs_openai = FALSE,
                                      !.api_cost = 1]]
                    ELSE rows
         IN  update_processed_entries_after_openai(new, Tail(updated_entries))

----------------------------------------------------------------------------
(* Invocation records.  pc "idle": never called or result dropped; "done": *)
(* returned, ret holding the result the caller received.                   *)

NoReturn == [success |-> FALSE, kind |-> "none", count |-> 0, cost |-> 0]

Result(success, kind, count, cost) ==
    [success |-> success, kind |-> kind, count |-> count, cost |-> cost]

\* History: the step in which the exception that reached the handler of the
\* pass was raised, and the batch being handled then.
NotRaised == [step |-> "none", b |-> 0]

\* raised, base (the number of rows when the pass, or the failed pass it
\* repeats, was called), rerun, from_status and store0 (the status and the
\* rows when the pass was called) and inserts (the argument of each
\* batch_insert_processed_entries call the pass made, in order) are history.
LocalIdle == [pc |-> "idle", file_id |-> 0, batches |-> <<>>, b |-> 0,
              total_entries |-> 0, entries_needing_openai |-> 0, ret |-> NoReturn,
              raised |-> NotRaised, base |-> 0, rerun |-> FALSE,
              from_status |-> "none", store0 |-> <<>>, inserts |-> <<>>]

RProcs == {1, 2}

RemoteIdle == [pc |-> "idle", file_id |-> 0, entry_ids |-> <<>>, k |-> 0,
               entries_to_process |-> <<>>, batches |-> <<>>, b |-> 0,
               total_processed |-> 0, total_cost |-> 0,
               outcomes |-> <<>>, updated |-> {}, ret |-> NoReturn,
               all_ok |-> FALSE, again |-> FALSE, store0 |-> <<>>,
               write_failed |-> FALSE]


----------------------------------------------------------------------------
(* CorrectionService.process_srt_file, correction_service.py:32-65, with   *)
(* its helpers (146-204).  One step per database call; fault names the     *)
(* call of the step that raises, "none" when none does.                    *)

LocalReturn(success, kind, count, flagged) ==
    [LocalIdle EXCEPT !.pc = "done", !.file_id = lp.file_id,
                      !.ret = Result(success, kind, count, flagged),
                      !.raised = lp.raised, !.base = lp.base, !.rerun = lp.rerun,
                      !.from_status = lp.from_status, !.store0 = lp.store0,
                      !.inserts = lp.inserts]

\* History set at the call: it repeats the call that just returned the
\* failure of a batch after earlier batches had been inserted.
RerunAfterPartialFailure(file_id) ==
    /\ lp.pc = "done" /\ lp.file_id = file_id
    /\ lp.ret.kind = "error"
    /\ lp.raised.step = "batch" /\ lp.raised.b >= 2

LocalCall(file_id) ==
    [LocalIdle EXCEPT !.file_id = file_id,
        !.rerun = RerunAfterPartialFailure(file_id),
        !.base = IF RerunAfterPartialFailure(file_id) THEN lp.base ELSE Len(store),
        !.from_status = IF file_id \in Transcripts THEN status[file_id] ELSE "none",
        !.store0 = store]

LocalRaised(call, step) ==
    [call EXCEPT !.pc = "except", !.raised = [step |-> step, b |-> call.b]]

\* Line 153: the status write of _validate_and_prepare_transcript.
PrepareSkipsWrite(file_id) == NoStatusWrite

PrepareStatusWrite(file_id) ==
    update_raw_transcript_status(file_id, "processing", 153)

\* Line 48: the result for a transcript id that names no row.
NotFoundReportsSuccess == Result(TRUE, "not_found", 0, 0)

NotFoundResult == Result(FALSE, "not_found", 0, 0)

\* Lines 44-53: load the transcript, write "processing", parse and batch.
process_srt_file_start(file_id, fault) ==
    /\ lp.pc \in {"idle", "done"}
    /\ IF fault \in {"get", "update"}
       THEN /\ lp' = LocalRaised(LocalCall(file_id), "prepare")
            /\ NoStatusWrite
       ELSE IF file_id \notin Transcripts
       THEN /\ lp' = [LocalCall(file_id) EXCEPT !.pc = "done",
                          !.ret = NotFoundResult]
            /\ NoStatusWrite
       ELSE /\ PrepareStatusWrite(file_id)
            /\ IF fault = "parse"
               THEN lp' = LocalRaised(LocalCall(file_id), "parse")
               ELSE LET batches == create_batches(parse_srt_file(content[file_id]),
                                                  BATCH_SIZE, MAX_BATCH_TOKENS)
                    IN  IF batches = <<>>
                        THEN lp' = [LocalCall(file_id) EXCEPT !.pc = "done",
                                        !.ret = Result(FALSE, "no_entries", 0, 0)]
                        ELSE lp' = [LocalCall(file_id) EXCEPT !.pc = "batch",
                                        !.batches = batches, !.b = 1]
    /\ UNCHANGED <<harnessVars, content, store, rp, rule>>

\* An exception of the loop body, the batch insert of line 195 included:
\* nothing in _process_all_batches_locally catches it.
LocalInsertSwallowed(r) ==
    [r EXCEPT !.b = @ + 1,
              !.pc = IF r.b = Len(r.batches) THEN "finish" ELSE "batch",
              !.raised = [step |-> "batch", b |-> r.b]]

LocalInsertFailed(r) == LocalRaised(r, "batch")

\* Line 198: the entries of the batch flagged for the remote pass.
FlaggedCountsAll(processed_entries) == Len(processed_entries)

FlaggedCount(processed_entries) ==
    Cardinality({i \in 1..Len(processed_entries) : processed_entries[i].needs_openai})

\* Lines 181-191: the ProcessedEntry built from entry i of the batch and
\* the local result at the same position.
LocalEntryUnowned(file_id, entry, result) ==
    ProcessedEntry(0, entry.start_time, entry.end_time, entry.text,
                   result.corrected_text, result.corrections, result.confidence,
                   result.needs_review, result.needs_openai)

LocalEntry(file_id, entry, result) ==
    ProcessedEntry(file_id, entry.start_time, entry.end_time, entry.text,
                   result.corrected_text, result.corrections, result.confidence,
                   result.needs_review, result.needs_openai)

\* Line 195: the insert calls made for the entries built from one batch,
\* each call given as its argument.
InsertCallsPerEntry(processed_entries) ==
    [i \in 1..Len(processed_entries) |-> <<processed_entries[i]>>]

InsertCalls(processed_entries) == <<processed_entries>>

\* The rows after the insert calls, made in order.
RECURSIVE InsertAll(_, _)
InsertAll(rows, calls) ==
    IF calls = <<>> THEN rows
    ELSE InsertAll(batch_insert_processed_entries(rows, Head(calls)), Tail(calls))

\* Lines 174-198, one iteration: local correction, ProcessedEntry
\* construction, one batch insert, the two counters.
process_batch_locally(fault) ==
    /\ lp.pc = "batch"
    /\ LET batch == lp.batches[lp.b]
           processed_results == process_entries(batch, rule)
           processed_entries ==
               [i \in 1..Len(processed_results) |->
                   LocalEntry(lp.file_id, batch[i], processed_results[i])]
           flagged == FlaggedCount(processed_entries)
       IN  IF fault # "none"
           THEN /\ lp' = LocalInsertFailed(lp)
                /\ UNCHANGED store
           ELSE /\ store' = InsertAll(store, InsertCalls(processed_entries))
                /\ lp' = [lp EXCEPT
                     !.inserts = @ \o InsertCalls(processed_entries),
                     !.total_entries = @ + Len(processed_entries),
                     !.entries_needing_openai = @ + flagged,
                     !.b = @ + 1,
                     !.pc = IF lp.b = Len(lp.batches) THEN "finish" ELSE "batch"]
    /\ NoStatusWrite
    /\ UNCHANGED <<harnessVars, content, rp, rule>>

\* Lines 58-61.
process_srt_file_finish(fault) ==
    /\ lp.pc = "finish"
    /\ IF fault # "none"
       THEN /\ lp' = LocalRaised(lp, "finish")
            /\ NoStatusWrite
       ELSE /\ update_raw_transcript_status(lp.file_id, "processed", 59)
            /\ lp' = LocalReturn(TRUE, "ok", lp.total_entries, lp.entries_needing_openai)
    /\ UNCHANGED <<harnessVars, content, store, rp, rule>>

\* Line 64: the status write of the handler.
ExceptSkipsWrite(file_id) == NoStatusWrite

ExceptStatusWrite(file_id) == update_raw_transcript_status(file_id, "error", 64)

\* Lines 63-65; a raising status write leaves the handler as an exception.
process_srt_file_except(fault) ==
    /\ lp.pc = "except"
    /\ IF fault # "none"
       THEN /\ lp' = LocalReturn(FALSE, "raised", 0, 0)
            /\ NoStatusWrite
       ELSE /\ ExceptStatusWrite(lp.file_id)
            /\ lp' = LocalReturn(FALSE, "error", 0, 0)
    /\ UNCHANGED <<harnessVars, content, store, rp, rule>>

----------------------------------------------------------------------------
(* CorrectionService.process_entries_with_openai,                          *)
(* correction_service.py:67-144.  One step per database call; the remote   *)
(* call of a batch and the handling of its result are one step.            *)

\* History kept with the result: the remote correction of every batch of
\* the invocation was obtained.
AllOk(r) ==
    r.outcomes # <<>> /\ \A j \in 1..Len(r.outcomes) : r.outcomes[j].ok

\* The locals kept with the result are history: what the invocation
\* selected, its batches and what became of each.
RemoteReturn(p, success, kind, count, cost) ==
    [RemoteIdle EXCEPT !.pc = "done", !.file_id = rp[p].file_id,
                       !.entry_ids = rp[p].entry_ids,
                       !.ret = Result(success, kind, count, cost),
                       !.all_ok = AllOk(rp[p]),
                       !.entries_to_process = rp[p].entries_to_process,
                       !.batches = rp[p].batches,
                       !.outcomes = rp[p].outcomes,
                       !.updated = rp[p].updated,
                       !.write_failed = rp[p].write_failed,
                       !.store0 = rp[p].store0]

\* History set at the call: it repeats, with the same arguments, the call
\* this worker returned from just before, which reported success with the
\* remote correction of every batch obtained.
RepeatsFullSuccess(p, file_id, entry_ids) ==
    /\ rp[p].pc = "done"
    /\ rp[p].ret.success /\ rp[p].all_ok
    /\ rp[p].file_id = file_id /\ rp[p].entry_ids = entry_ids

\* The text the remote corrector returns for the entry numbered index.
RemoteTexts == <<"R1", "R2", "R3", "R4", "R5", "R6", "R7", "R8">>

\* OpenAIClient.correct_transcript_batch, openai_client.py:92-135, when it
\* returns: the parsed JSON array, here with n elements, element i about
\* entry i of the batch (the format of openai_client.py:45-56).
correct_transcript_batch(batch, n) ==
    [i \in 1..n |->
        [timestamp |-> "t", original_text |-> batch[i].text,
         corrected_text |-> RemoteTexts[batch[i].index],
         corrections_made |-> <<>>, needs_review |-> FALSE]]

\* Line 129: sum(entry.api_cost for entry in updated_entries) reads an
\* attribute of each element; the elements are the dicts built by
\* map_corrections_to_entries.
cost_raises(updated_entries) ==
    \E i \in 1..Len(updated_entries) : ~HasAttr(updated_entries[i], "api_cost")

RECURSIVE SumCost(_)
SumCost(updated_entries) ==
    IF updated_entries = <<>> THEN 0
    ELSE Head(updated_entries).api_cost + SumCost(Tail(updated_entries))

\* Line 80: the status write that opens the remote pass.
StartSkipsWrite(file_id) == NoStatusWrite

StartStatusWrite(file_id) ==
    update_raw_transcript_status(file_id, "openai_processing", 80)

\* Lines 78-80: the call and the first status write.
process_entries_with_openai_start(p, file_id, entry_ids, fault) ==
    /\ rp[p].pc \in {"idle", "done"}
    /\ IF fault # "none"
       THEN /\ rp' = [rp EXCEPT ![p] =
                        [RemoteIdle EXCEPT !.pc = "except",
                            !.file_id = file_id, !.entry_ids = entry_ids,
                            !.store0 = store,
                            !.again = RepeatsFullSuccess(p, file_id, entry_ids)]]
            /\ NoStatusWrite
       ELSE /\ StartStatusWrite(file_id)
            /\ rp' = [rp EXCEPT ![p] =
                        [RemoteIdle EXCEPT !.pc = "load",
                            !.file_id = file_id, !.entry_ids = entry_ids, !.k = 1,
                            !.store0 = store,
                            !.again = RepeatsFullSuccess(p, file_id, entry_ids)]]
    /\ UNCHANGED <<harnessVars, content, store, lp, rule>>

\* get_processed_entry, then the guard of line 86.
NeedsProcessing(rows, entry_id) ==
    EntryExists(rows, entry_id) /\ ~rows[entry_id].openai_processed

\* Lines 84-87, one iteration: one get_processed_entry.
load_entry(p, fault) ==
    /\ rp[p].pc = "load"
    /\ rp[p].k <= Len(rp[p].entry_ids)
    /\ IF fault # "none"
       THEN rp' = [rp EXCEPT ![p].pc = "except"]
       ELSE LET entry_id == rp[p].entry_ids[rp[p].k]
            IN  rp' = [rp EXCEPT
                    ![p].k = @ + 1,
                    ![p].entries_to_process =
                        IF NeedsProcessing(store, entry_id)
                        THEN Append(@, store[entry_id]) ELSE @]
    /\ NoStatusWrite
    /\ UNCHANGED <<harnessVars, content, store, lp, rule>>

\* Line 90: the status write of the pass that found nothing to process.
EmptySkipsWrite(file_id) == NoStatusWrite

EmptyStatusWrite(file_id) == update_raw_transcript_status(file_id, "processed", 90)

\* Lines 89-91: nothing to process.
no_entries_to_process(p, fault) ==
    /\ rp[p].pc = "load"
    /\ rp[p].k > Len(rp[p].entry_ids)
    /\ rp[p].entries_to_process = <<>>
    /\ IF fault # "none"
       THEN /\ rp' = [rp EXCEPT ![p].pc = "except"]
            /\ NoStatusWrite
       ELSE /\ EmptyStatusWrite(rp[p].file_id)
            /\ rp' = [rp EXCEPT ![p] = RemoteReturn(p, FALSE, "no_entries", 0, 0)]
    /\ UNCHANGED <<harnessVars, content, store, lp, rule>>

\* Lines 93-113: the pseudo-entries, numbered by position in
\* entries_to_process, and their batches.
prepare_batches(p) ==
    /\ rp[p].pc = "load"
    /\ rp[p].k > Len(rp[p].entry_ids)
    /\ rp[p].entries_to_process # <<>>
    /\ LET etp == rp[p].entries_to_process
           srt_entries == [i \in 1..Len(etp) |->
                             SRTEntry(i, etp[i].timestamp_start,
                                      etp[i].timestamp_end, etp[i].original_text)]
       IN  rp' = [rp EXCEPT
                ![p].batches = create_batches(srt_entries, BATCH_SIZE, MAX_BATCH_TOKENS),
                ![p].b = 1, ![p].pc = "batch"]
    /\ NoStatusWrite
    /\ UNCHANGED <<harnessVars, content, store, lp, rule>>

\* Lines 133-135: the handler of the loop body; r is the invocation about
\* to go on to the next batch.
BatchFailedAborts(r) ==
    [r EXCEPT !.pc = "except",
              !.outcomes = Append(@, [ok |-> FALSE, corrections |-> <<>>])]

BatchFailed(r) ==
    [r EXCEPT !.outcomes = Append(@, [ok |-> FALSE, corrections |-> <<>>])]

\* Lines 115-135, one iteration.  remote is "fail" when
\* correct_transcript_batch raises, else "ok" with n the length of the
\* array it returns; fault = "update" makes the store update raise.  Every
\* exception of the body is caught at line 133 and the loop goes on.
process_batch_with_openai(p, remote, n, fault) ==
    /\ rp[p].pc = "batch"
    /\ LET batch == rp[p].batches[rp[p].b]
           etp == rp[p].entries_to_process
           corrections == correct_transcript_batch(batch, n)
           next == [rp[p] EXCEPT !.b = @ + 1,
                       !.pc = IF rp[p].b = Len(rp[p].batches) THEN "finish" ELSE "batch"]
       IN  /\ n \in 0..Len(batch)
           /\ IF remote = "fail"
              THEN /\ n = 0 /\ fault = "none"
                   /\ rp' = [rp EXCEPT ![p] = BatchFailed(next)]
                   /\ UNCHANGED store
              ELSE LET seen == [next EXCEPT !.outcomes =
                                   Append(@, [ok |-> TRUE, corrections |-> corrections])]
                   IN  IF map_raises(etp)
                       THEN /\ fault = "none"
                            /\ rp' = [rp EXCEPT ![p] = seen]
                            /\ UNCHANGED store
                       ELSE LET updated_entries ==
                                    map_corrections_to_entries(etp, corrections)
                                ids == {updated_entries[i].entry.id :
                                           i \in 1..Len(updated_entries)}
                            IN  IF fault = "update"
                                THEN /\ rp' = [rp EXCEPT ![p] =
                                                 [seen EXCEPT !.write_failed = TRUE]]
                                     /\ UNCHANGED store
                                ELSE /\ store' = update_processed_entries_after_openai(
                                                     store, updated_entries)
                                     /\ rp' = [rp EXCEPT ![p] =
                                          IF cost_raises(updated_entries)
                                          THEN [seen EXCEPT !.updated = @ \cup ids]
                                          ELSE [seen EXCEPT !.updated = @ \cup ids,
                                                  !.total_cost = @ + SumCost(updated_entries),
                                                  !.total_processed = @ + Len(updated_entries)]]
    /\ NoStatusWrite
    /\ UNCHANGED <<harnessVars, content, lp, rule>>

\* Lines 137-140.
process_entries_with_openai_finish(p, fault) ==
    /\ rp[p].pc = "finish"
    /\ IF fault # "none"
       THEN /\ rp' = [rp EXCEPT ![p].pc = "except"]
            /\ NoStatusWrite
       ELSE /\ update_raw_transcript_status(rp[p].file_id, "completed", 138)
            /\ rp' = [rp EXCEPT ![p] = RemoteReturn(p, TRUE, "ok",
                                           rp[p].total_processed, rp[p].total_cost)]
    /\ UNCHANGED <<harnessVars, content, store, lp, rule>>

\* Line 143: the status write of the handler.
RemoteExceptSkipsWrite(file_id) == NoStatusWrite

RemoteExceptStatusWrite(file_id) ==
    update_raw_transcript_status(file_id, "error", 143)

\* Lines 142-144; a raising status write leaves the handler as an exception.
process_entries_with_openai_except(p, fault) ==
    /\ rp[p].pc = "except"
    /\ IF fault # "none"
       THEN /\ rp' = [rp EXCEPT ![p] = RemoteReturn(p, FALSE, "raised", 0, 0)]
            /\ NoStatusWrite
       ELSE /\ RemoteExceptStatusWrite(rp[p].file_id)
            /\ rp' = [rp EXCEPT ![p] = RemoteReturn(p, FALSE, "error", 0, 0)]
    /\ UNCHANGED <<harnessVars, content, store, lp, rule>>

----------------------------------------------------------------------------
(* Initial states and inputs of the service *)

Block(i, valid) ==
    [valid |-> valid, start_time |-> 2 * i, end_time |-> 2 * i + 1,
     text |-> IF i % 2 = 1 THEN "a" ELSE "bb"]

\* Stored file contents: n well-formed blocks, or one malformed block.
Contents ==
    {[i \in 1..n |-> Block(i, TRUE)] : n \in 0..MaxCues}
    \cup {<<Block(1, FALSE)>>}

SvcInit ==
    /\ content \in [Transcripts -> Contents]
    /\ status = [t \in Transcripts |-> "pending"]
    /\ store = <<>>
    /\ lp = LocalIdle
    /\ rp = [p \in RProcs |-> RemoteIdle]
    /\ rule \in [Texts -> BOOLEAN]
    /\ lastWrite = NoWrite

MapIdle ==
    /\ m_pc = "off" /\ m_entries = <<>> /\ m_corrections = <<>> /\ m_mapped = <<>>

BatchIdle ==
    /\ b_pc = "off" /\ b_entries = <<>> /\ b_target = 1 /\ b_max_tokens = 0
    /\ b_batches = <<>>

NoResult == [kind |-> "none", line |-> 0]

RetryIdle ==
    /\ c_pc = "off" /\ c_retry_count = 0 /\ c_attempt = 0
    /\ c_events = <<>> /\ c_failures = <<>> /\ c_result = NoResult

\* No call in progress and every result taken.
AllIdle == lp.pc = "idle" /\ \A p \in RProcs : rp[p].pc = "idle"

\* The caller takes the result of a call that returned.
TakeLocalResult ==
    /\ lp.pc = "done"
    /\ lp' = LocalIdle
    /\ NoStatusWrite
    /\ UNCHANGED <<harnessVars, content, store, rp, rule>>

TakeRemoteResult(p) ==
    /\ rp[p].pc = "done"
    /\ rp' = [rp EXCEPT ![p] = RemoteIdle]
    /\ NoStatusWrite
    /\ UNCHANGED <<harnessVars, content, store, lp, rule>>

\* The entry_ids a caller may pass: ids of rows, and one id of no row.
EntryIdLists(n) == SeqsUpTo(1..(Len(store) + 1), n)

\* A local pass is started only while its rows fit the table.
RoomFor(file_id) ==
    file_id \in Transcripts =>
        Len(store) + Len(parse_srt_file(content[file_id])) <= MaxStore

Faults == {"none", "raise"}

LocalStart ==
    \E file_id \in FileIds, fault \in {"none", "get", "update", "parse"} :
        lp.pc = "idle" /\ RoomFor(file_id) /\ process_srt_file_start(file_id, fault)

\* The caller repeats the call it just got the result of.
LocalRepeat ==
    \E fault \in {"none", "get", "update", "parse"} :
        /\ lp.pc = "done"
        /\ RoomFor(lp.file_id)
        /\ process_srt_file_start(lp.file_id, fault)

LocalBatch == \E fault \in Faults : process_batch_locally(fault)

LocalFinish == \E fault \in Faults : process_srt_file_finish(fault)

LocalExcept == \E fault \in Faults : process_srt_file_except(fault)

RemoteStart(p, n, files, faults) ==
    \E file_id \in files, entry_ids \in EntryIdLists(n), fault \in faults :
        rp[p].pc = "idle" /\ process_entries_with_openai_start(p, file_id, entry_ids, fault)

\* The caller repeats the call it just got the result of.
RemoteRepeat(p, faults) ==
    \E fault \in faults :
        /\ rp[p].pc = "done"
        /\ process_entries_with_openai_start(p, rp[p].file_id, rp[p].entry_ids, fault)

RemoteLoad(p) == \E fault \in Faults : load_entry(p, fault)

RemoteEmpty(p) == \E fault \in Faults : no_entries_to_process(p, fault)

RemotePrepare(p) == prepare_batches(p)

RemoteBatch(p) ==
    \E remote \in {"ok", "fail"}, n \in 0..BATCH_SIZE, fault \in {"none", "update"} :
        process_batch_with_openai(p, remote, n, fault)

RemoteFinish(p) == \E fault \in Faults : process_entries_with_openai_finish(p, fault)

RemoteExcept(p) == \E fault \in Faults : process_entries_with_openai_except(p, fault)

\* Invocations one after another: a pass starts when no pass is in progress
\* and the caller has taken the result of the one before.
Next ==
    \/ AllIdle /\ LocalStart
    \/ rp[1].pc = "idle" /\ LocalRepeat
    \/ LocalBatch
    \/ LocalFinish
    \/ LocalExcept
    \/ TakeLocalResult
    \/ AllIdle /\ RemoteStart(1, MaxIds, FileIds, Faults)
    \/ lp.pc = "idle" /\ RemoteRepeat(1, Faults)
    \/ TakeRemoteResult(1)
    \/ RemoteLoad(1)
    \/ RemoteEmpty(1)
    \/ RemotePrepare(1)
    \/ RemoteBatch(1)
    \/ RemoteFinish(1)
    \/ RemoteExcept(1)

Init == SvcInit /\ MapIdle /\ RetryIdle /\ BatchIdle

Spec == Init /\ [][Next]_vars

\* Two workers running the remote pass of the same transcript at the same
\* time; the local pass runs alone.
NextConc ==
    \/ AllIdle /\ LocalStart
    \/ LocalBatch
    \/ LocalFinish
    \/ LocalExcept
    \/ TakeLocalResult
    \/ \E p \in RProcs : lp.pc = "idle" /\ RemoteStart(p, MaxIdsConc, Transcripts, {"none"})
    \/ \E p \in RProcs : TakeRemoteResult(p)
    \/ \E p \in RProcs : RemoteLoad(p)
    \/ \E p \in RProcs : RemoteEmpty(p)
    \/ \E p \in RProcs : RemotePrepare(p)
    \/ \E p \in RProcs : RemoteBatch(p)
    \/ \E p \in RProcs : RemoteFinish(p)
    \/ \E p \in RProcs : RemoteExcept(p)

\* The overlap is explored on the transcript with the most blocks.
InitConc ==
    /\ Init
    /\ \A t \in Transcripts : content[t] = [i \in 1..MaxCues |-> Block(i, TRUE)]

SpecConc == InitConc /\ [][NextConc]_vars

\* The local pass alone, on stored contents of every shape: each block
\* well-formed with either text, or malformed.
MaxLocalCues == 3

BlockOf(i, kind) ==
    [valid |-> kind # "bad", start_time |-> 2 * i, end_time |-> 2 * i + 1,
     text |-> IF kind = "bad" THEN "a" ELSE kind]

LocalContents ==
    UNION {{[i \in 1..n |-> BlockOf(i, kinds[i])] :
               kinds \in [1..n -> Texts \cup {"bad"}]} : n \in 0..MaxLocalCues}

InitLocal ==
    /\ content \in [Transcripts -> LocalContents]
    /\ status = [t \in Transcripts |-> "pending"]
    /\ store = <<>>
    /\ lp = LocalIdle
    /\ rp = [p \in RProcs |-> RemoteIdle]
    /\ rule \in [Texts -> BOOLEAN]
    /\ lastWrite = NoWrite
    /\ MapIdle /\ RetryIdle /\ BatchIdle

NextLocal ==
    \/ LocalStart
    \/ LocalRepeat
    \/ LocalBatch
    \/ LocalFinish
    \/ LocalExcept
    \/ TakeLocalResult

SpecLocal == InitLocal /\ [][NextLocal]_vars

\* process_srt_file is sequential code: a call in progress takes its next
\* step.
SpecLocalFair ==
    /\ SpecLocal
    /\ WF_vars(LocalBatch) /\ WF_vars(LocalFinish) /\ WF_vars(LocalExcept)

----------------------------------------------------------------------------
(* Inputs of the mapper harness *)

\* Elements of the remote response (openai_client.py:45-56); the mapper
\* reads them with .get, so elements lacking keys are inputs too.
CorrectionDicts ==
    {[timestamp |-> "t", original_text |-> o, corrected_text |-> c,
      corrections_made |-> <<[original |-> o, corrected |-> c, confidence |-> 1]>>,
      needs_review |-> TRUE] : o \in Texts, c \in {"A"}}
    \cup {[timestamp |-> "t", original_text |-> o, corrected_text |-> o,
           corrections_made |-> <<>>, needs_review |-> FALSE] : o \in {"a"}}
    \cup {[timestamp |-> "t", original_text |-> "bb"]}

EntryLists(n) ==
    UNION {{[i \in 1..k |-> SRTEntry(i, 2 * i, 2 * i + 1, txt[i])] :
               txt \in [1..k -> Texts]} : k \in 0..n}

SvcOff ==
    /\ content = [t \in Transcripts |-> <<>>]
    /\ status = [t \in Transcripts |-> "pending"]
    /\ store = <<>>
    /\ lp = LocalIdle
    /\ rp = [p \in RProcs |-> RemoteIdle]
    /\ rule = [t \in Texts |-> FALSE]
    /\ lastWrite = NoWrite

MapInit ==
    /\ SvcOff /\ RetryIdle /\ BatchIdle
    /\ m_pc = "call"
    /\ m_entries \in EntryLists(MaxLen)
    /\ m_corrections \in SeqsUpTo(CorrectionDicts, MaxLen)
    /\ m_mapped = <<>>

\* One call of map_corrections_to_entries on the drawn arguments.
MapCall ==
    /\ m_pc = "call"
    /\ ~map_raises(m_entries)
    /\ m_mapped' = map_corrections_to_entries(m_entries, m_corrections)
    /\ m_pc' = "returned"
    /\ UNCHANGED <<m_entries, m_corrections>>
    /\ UNCHANGED <<svcVars, retryVars, batchVars>>

MapNext == MapCall

SpecMap == MapInit /\ [][MapNext]_vars

----------------------------------------------------------------------------
(* Inputs of the correct_transcript_batch harness *)

\* The retry_count a caller may pass: any int, negative ones included.
RetryCounts == (0 - 1)..MaxRetry

RetryInit ==
    /\ SvcOff /\ MapIdle /\ BatchIdle
    /\ c_pc = "loop"
    /\ c_retry_count \in RetryCounts
    /\ c_attempt = 0
    /\ c_events = <<>> /\ c_failures = <<>> /\ c_result = NoResult

ClientAttempt ==
    \E outcome \in {"ok"} \cup FailureClasses : correct_transcript_batch_attempt(outcome)

ClientExhausted == correct_transcript_batch_exhausted

RetryNext == ClientAttempt \/ ClientExhausted

SpecRetry == RetryInit /\ [][RetryNext]_vars

----------------------------------------------------------------------------
(* Inputs of the create_batches harness *)

BatchInit ==
    /\ SvcOff /\ MapIdle /\ RetryIdle
    /\ b_pc = "call"
    /\ b_entries \in EntryLists(MaxEntries)
    /\ b_target \in 1..MaxTarget
    /\ b_max_tokens \in 0..MaxTokens
    /\ b_batches = <<>>

\* One call of create_batches on the drawn arguments, as made at
\* correction_service.py:105-109 and 161-165.
BatchCall ==
    /\ b_pc = "call"
    /\ b_batches' = create_batches(b_entries, b_target, b_max_tokens)
    /\ b_pc' = "returned"
    /\ UNCHANGED <<b_entries, b_target, b_max_tokens, mapVars, retryVars, svcVars>>

BatchNext == BatchCall

SpecBatch == BatchInit /\ [][BatchNext]_vars

----------------------------------------------------------------------------
(* Properties *)

\* C1: for an entry list E and a correction list C no longer than E, the
\* mapper returns one record per entry; record i carries entry i itself and
\* the corrected_text of C[i] when i is within C (whatever original_text
\* C[i] names, and entry i's own text when C[i] has no corrected_text key),
\* and the text of entry i beyond the end of C.
C1_PositionalMapping ==
    (m_pc = "returned" /\ Len(m_corrections) <= Len(m_entries)) =>
        /\ Len(m_mapped) = Len(m_entries)
        /\ \A i \in 1..Len(m_entries) :
            /\ m_mapped[i].entry = m_entries[i]
            /\ m_mapped[i].corrected_text =
                 IF i <= Len(m_corrections)
                 THEN IF HasAttr(m_corrections[i], "corrected_text")
                      THEN m_corrections[i].corrected_text
                      ELSE m_entries[i].text
                 ELSE m_entries[i].text

\* A call with a shorter, non-empty C in which some C[i] is about another
\* text than entry i and corrects it.
C1_Witness ==
    /\ m_pc = "returned"
    /\ 0 < Len(m_corrections) /\ Len(m_corrections) < Len(m_entries)
    /\ \E i \in 1..Len(m_corrections) :
          /\ HasAttr(m_corrections[i], "corrected_text")
          /\ m_corrections[i].original_text # m_entries[i].text
          /\ m_mapped[i].corrected_text # m_entries[i].text

\* The Processed Entry from which entry i of batch j of invocation p was
\* built (its copy as loaded): the pseudo-entry's index is its position in
\* entries_to_process (line 97).
SourceOf(p, j, i) == rp[p].entries_to_process[rp[p].batches[j][i].index]

InFlight(p) == rp[p].pc \notin {"idle", "done"}

\* C2: once batch j of a remote pass has been handled with its remote
\* correction obtained, the row behind entry i of batch j carries result i
\* of that batch, and no row carries a result of another position.
C2_ResultsMergedOntoOwnEntries ==
    \A p \in RProcs :
        LET j == Len(rp[p].outcomes)
        IN  (InFlight(p) /\ j > 0 /\ rp[p].outcomes[j].ok) =>
                \A i \in 1..Len(rp[p].outcomes[j].corrections) :
                    /\ store[SourceOf(p, j, i).id].corrected_text =
                           rp[p].outcomes[j].corrections[i].corrected_text
                    /\ \A id \in 1..Len(store) :
                           store[id].corrected_text =
                               rp[p].outcomes[j].corrections[i].corrected_text
                           => id = SourceOf(p, j, i).id

\* C3: in a remote pass where the remote correction of batch j failed and
\* that of another batch was obtained, every row behind an entry of batch j
\* is as it was when loaded, is not marked openai_processed, and is in no
\* store update of the invocation.
C3_FailedBatchUntouched ==
    \A p \in RProcs :
        \A j \in 1..Len(rp[p].outcomes) :
            (/\ InFlight(p)
             /\ ~rp[p].outcomes[j].ok
             /\ \E j2 \in 1..Len(rp[p].outcomes) : rp[p].outcomes[j2].ok) =>
                \A i \in 1..Len(rp[p].batches[j]) :
                    LET e == SourceOf(p, j, i)
                    IN  /\ store[e.id] = e
                        /\ store[e.id].needs_openai = e.needs_openai
                        /\ ~store[e.id].openai_processed
                        /\ e.id \notin rp[p].updated

\* All batches handled, one failed and a later one returned corrections.
C3_Witness ==
    \E p \in RProcs :
        /\ rp[p].pc = "finish"
        /\ \E j, j2 \in 1..Len(rp[p].outcomes) :
              /\ j < j2
              /\ ~rp[p].outcomes[j].ok
              /\ rp[p].outcomes[j2].ok
              /\ rp[p].outcomes[j2].corrections # <<>>
              /\ \E i \in 1..Len(rp[p].batches[j]) : SourceOf(p, j, i).needs_openai

C5_NoEntryClaimedTwice ==
    \A p, q \in RProcs :
        (p # q /\ InFlight(p) /\ InFlight(q)) =>
            \A i \in 1..Len(rp[p].entries_to_process),
               k \in 1..Len(rp[q].entries_to_process) :
                rp[p].entries_to_process[i].id # rp[q].entries_to_process[k].id

\* C6 as stated: a status write to "processed" is made when the status is
\* "processing".
C6_ProcessedOnlyFromProcessing ==
    lastWrite.to = "processed" => lastWrite.from = "processing"

\* C6 amended: a status write to "processed" is made when the status is
\* "processing" (the local pass, line 59) or, by a remote pass that found
\* nothing to process (line 90), when it is "openai_processing".
C6_ProcessedFromProcessingOrEmptyRemote ==
    lastWrite.to = "processed" =>
        \/ lastWrite.line = 59 /\ lastWrite.from = "processing"
        \/ lastWrite.line = 90 /\ lastWrite.from = "openai_processing"

\* The local pass has just written "processed".
C6_Witness ==
    /\ lastWrite.to = "processed" /\ lastWrite.line = 59
    /\ lp.pc = "done" /\ lp.ret.success

\* C7: a status write to "completed" is made when the status is
\* "openai_processing".
C7_CompletedOnlyFromOpenaiProcessing ==
    lastWrite.to = "completed" => lastWrite.from = "openai_processing"

\* A remote pass has just written "completed" after handling its batches.
C7_Witness ==
    /\ lastWrite.to = "completed"
    /\ \E p \in RProcs : rp[p].pc = "done" /\ rp[p].ret.success

\* C8: a status write to "error" is made when the status is "processing" or
\* "openai_processing", and a status in "error" is changed only by the first
\* status write of a pass invoked afterwards (line 153 or line 80).
C8_ErrorOnlyFromWorkingStates ==
    /\ lastWrite.to = "error" =>
          lastWrite.from \in {"processing", "openai_processing", "error"}
    /\ (lastWrite.from = "error" /\ lastWrite.to # "error") =>
          lastWrite.line \in {153, 80}

Rank(s) ==
    CASE s = "pending" -> 1
      [] s = "processing" -> 2
      [] s = "processed" -> 3
      [] s = "openai_processing" -> 4
      [] s = "completed" -> 5
      [] OTHER -> 0

\* C9: a status write that moves forward on the path pending, processing,
\* processed, openai_processing, completed moves to the next state of it.
C9_NoForwardSkip ==
    (Rank(lastWrite.from) > 0 /\ Rank(lastWrite.to) > Rank(lastWrite.from)) =>
        Rank(lastWrite.to) = Rank(lastWrite.from) + 1

\* C10: a local pass that returns because the parse yielded no entry
\* reports failure and leaves the transcript in "error".
C10_NoValidEntriesSetsError ==
    (lp.pc = "done" /\ lp.ret.kind = "no_entries") =>
        /\ ~lp.ret.success
        /\ status[lp.file_id] = "error"

\* The number of remote invocations / sleeps recorded in an event list.
Count(events, ev) == Cardinality({i \in 1..Len(events) : events[i].ev = ev})

\* C13: a call of correct_transcript_batch that returns after k failed
\* attempts has k < retry_count, returns the response of attempt k+1, made
\* k+1 remote invocations and none after the successful one, and slept
\* exactly k times, for 1, 2, ..., 2^(k-1) seconds in that order, sleep i
\* lying between failed attempt i and attempt i+1.
C13_RetryThenSuccess ==
    c_pc = "returned" =>
        LET k == Len(c_failures)
        IN  /\ k < c_retry_count
            /\ c_result.kind = "corrections"
            /\ Len(c_events) = 2 * k + 1
            /\ \A i \in 1..k :
                  /\ c_events[2 * i - 1] = CallEvent
                  /\ c_events[2 * i] = SleepEvent(2 ^ (i - 1))
            /\ c_events[2 * k + 1] = CallEvent

\* The default retry_count, attempts 1 and 2 failing and attempt 3
\* succeeding: sleeps of 1s then 2s.
C13_Witness ==
    /\ c_pc = "returned"
    /\ c_retry_count = DefaultRetryCount
    /\ Len(c_failures) = 2
    /\ c_events = <<CallEvent, SleepEvent(1), CallEvent, SleepEvent(2), CallEvent>>

\* C14: with retry_count = N >= 1, no call makes more than N remote
\* invocations; a call whose attempts all failed made exactly N of them,
\* slept exactly N-1 times, none after the last failed attempt, and ended by
\* raising, never by returning a result.
C14_BoundedRetries ==
    c_retry_count >= 1 =>
        /\ Count(c_events, "call") <= c_retry_count
        /\ (c_pc \in {"returned", "raised"} /\ Len(c_failures) = Count(c_events, "call")) =>
              /\ Count(c_events, "call") = c_retry_count
              /\ Count(c_events, "sleep") = c_retry_count - 1
              /\ c_events[Len(c_events)] = CallEvent
              /\ c_pc = "raised"
              /\ c_result.kind # "corrections"

\* The default retry_count with every attempt failing.
C14_Witness ==
    /\ c_pc = "raised"
    /\ c_retry_count = DefaultRetryCount
    /\ Len(c_failures) = DefaultRetryCount
    /\ Count(c_events, "sleep") = 2

\* C15: a call that ends after its last attempt failed raises ValueError
\* (line 128) when that attempt's response was not JSON and Exception
\* (line 133) when it failed in any other way; it returns nothing.
C15_DistinctErrorKinds ==
    (c_pc \in {"returned", "raised"} /\ c_retry_count >= 1
       /\ Len(c_failures) = Count(c_events, "call")) =>
        LET last == c_failures[Len(c_failures)]
        IN  /\ c_pc = "raised"
            /\ c_result.kind \in {"ValueError", "Exception"}
            /\ (c_result.kind = "ValueError") <=> (last = "JSONDecodeError")

\* Earlier attempts failed in transport and the last one returned a
\* response that is not JSON.
C15_Witness ==
    /\ c_pc = "raised"
    /\ Len(c_failures) >= 2
    /\ c_failures[1] # "JSONDecodeError"
    /\ c_failures[Len(c_failures)] = "JSONDecodeError"
    /\ c_result.kind = "ValueError"

\* C11: a local pass in which parsing, batching, local correction or a batch
\* insert raised still has the status "processing" when its handler is
\* entered, and, its handler having made its status write and returned,
\* has reported failure with the error message and left the status "error",
\* written over "processing": "processed" was not set in between,
\* whichever batch raised.
C11_LocalFailureEndsInError ==
    lp.raised.step \in {"parse", "batch"} =>
        /\ lp.pc = "except" => status[lp.file_id] = "processing"
        /\ (lp.pc = "done" /\ lp.ret.kind = "error") =>
              /\ ~lp.ret.success
              /\ status[lp.file_id] = "error"
              /\ lastWrite = [tid |-> lp.file_id, from |-> "processing",
                               to |-> "error", line |-> 64]

\* The second batch raised after the first had been inserted.
C11_Witness ==
    /\ lp.pc = "done" /\ lp.ret.kind = "error"
    /\ lp.raised = [step |-> "batch", b |-> 2]
    /\ status[lp.file_id] = "error"
    /\ Len(store) > lp.base

\* The rows inserted for transcript file_id since row number base.
RowsSince(file_id, base) ==
    {i \in (base + 1)..Len(store) : store[i].raw_transcript_id = file_id}

\* C12: when a local pass that failed after inserting some batches is
\* repeated and succeeds, the rows stored for the transcript by the two, and
\* those of them flagged needs_openai, are as many as one clean pass stores.
C12_RerunLeavesNoDuplicates ==
    (lp.pc = "done" /\ lp.rerun /\ lp.ret.success) =>
        LET entries == parse_srt_file(content[lp.file_id])
            rows == RowsSince(lp.file_id, lp.base)
        IN  /\ Cardinality(rows) = Len(entries)
            /\ Cardinality({i \in rows : store[i].needs_openai}) =
                   Cardinality({j \in 1..Len(entries) : rule[entries[j].text]})

\* C16: a remote pass attempts its batches one after the other whatever
\* became of the earlier ones; its handler is entered, once a batch has been
\* attempted, only after all of them have been; and a pass that attempted
\* batches and made its final status write attempted every batch, reports
\* success and leaves the status "completed".
C16_BatchFailureDoesNotAbort ==
    \A p \in RProcs :
        /\ rp[p].pc = "batch" =>
              /\ Len(rp[p].outcomes) = rp[p].b - 1
              /\ rp[p].b <= Len(rp[p].batches)
        /\ (rp[p].pc \in {"finish", "except", "done"} /\ rp[p].outcomes # <<>>) =>
              Len(rp[p].outcomes) = Len(rp[p].batches)
        /\ (rp[p].pc = "done" /\ rp[p].outcomes # <<>> /\ rp[p].ret.kind = "ok") =>
              /\ rp[p].ret.success
              /\ rp[p].file_id \in Transcripts => status[rp[p].file_id] = "completed"

\* The first batch failed, the second was attempted and the pass completed.
C16_Witness ==
    \E p \in RProcs :
        /\ rp[p].pc = "done" /\ rp[p].ret.success
        /\ rp[p].file_id \in Transcripts
        /\ Len(rp[p].outcomes) = 2
        /\ ~rp[p].outcomes[1].ok /\ rp[p].outcomes[2].ok
        /\ status[rp[p].file_id] = "completed"

\* The requested ids that name a row not yet openai_processed when the
\* pass was called, in the order requested.
RECURSIVE ValidUnprocessed(_, _)
ValidUnprocessed(rows, entry_ids) ==
    IF entry_ids = <<>> THEN <<>>
    ELSE IF NeedsProcessing(rows, Head(entry_ids))
         THEN <<Head(entry_ids)>> \o ValidUnprocessed(rows, Tail(entry_ids))
         ELSE ValidUnprocessed(rows, Tail(entry_ids))

\* C17: a remote pass whose requested ids include a valid unprocessed one,
\* and whose remote corrections were all obtained in full, has selected
\* exactly the valid unprocessed ids, has processed each of them, and returns
\* success with their number as the processed count.
C17_SkipsAndProcessesTheRest ==
    \A p \in RProcs :
        (/\ rp[p].pc = "done" /\ rp[p].ret.kind = "ok"
         /\ \A j \in 1..Len(rp[p].outcomes) :
               /\ rp[p].outcomes[j].ok
               /\ Len(rp[p].outcomes[j].corrections) = Len(rp[p].batches[j])) =>
            LET valid == ValidUnprocessed(rp[p].store0, rp[p].entry_ids)
            IN  /\ Len(rp[p].entries_to_process) = Len(valid)
                /\ \A i \in 1..Len(valid) :
                      /\ rp[p].entries_to_process[i].id = valid[i]
                      /\ store[valid[i]].openai_processed
                /\ rp[p].ret.success
                /\ rp[p].ret.count = Len(valid)

\* C18: a remote pass that selected no entry and made the status write of
\* line 90 made no remote call, left every row as it was and left the
\* status "processed".
C18_EmptySelectionBackToProcessed ==
    \A p \in RProcs :
        (rp[p].pc = "done" /\ rp[p].ret.kind = "no_entries") =>
            /\ rp[p].entries_to_process = <<>>
            /\ rp[p].outcomes = <<>>
            /\ store = rp[p].store0
            /\ rp[p].file_id \in Transcripts =>
                  /\ status[rp[p].file_id] = "processed"
                  /\ lastWrite = [tid |-> rp[p].file_id, from |-> "openai_processing",
                                   to |-> "processed", line |-> 90]

\* Ids were requested, none of them names a row still to be processed.
C18_Witness ==
    \E p \in RProcs :
        /\ rp[p].pc = "done" /\ rp[p].ret.kind = "no_entries"
        /\ rp[p].entry_ids # <<>>
        /\ store # <<>>
        /\ rp[p].file_id \in Transcripts
        /\ status[rp[p].file_id] = "processed"

\* C19: a remote pass that selected no entry does not report failure.
C19_EmptySelectionIsNotFailure ==
    \A p \in RProcs :
        (rp[p].pc = "done" /\ rp[p].ret.kind = "no_entries") =>
            /\ rp[p].ret.success
            /\ rp[p].ret.count = 0

\* C20: no pass ends with an exception leaving it; every end is a returned
\* result.
C20_NoExceptionEscapes ==
    /\ lp.pc = "done" => lp.ret.kind # "raised"
    /\ \A p \in RProcs : rp[p].pc = "done" => rp[p].ret.kind # "raised"

\* The concatenation of a list of batches, in order.
RECURSIVE Concat(_)
Concat(batches) ==
    IF batches = <<>> THEN <<>> ELSE Head(batches) \o Concat(Tail(batches))

\* The estimated token total of a batch.
RECURSIVE BatchTokens(_)
BatchTokens(batch) ==
    IF batch = <<>> THEN 0 ELSE EstimateTokens(Head(batch)) + BatchTokens(Tail(batch))

\* C25: for every entry list, target_batch_size >= 1 and max_tokens, every
\* batch create_batches returns is non-empty and the batches concatenated in
\* order are the input list.
C25_BatchingPartition ==
    b_pc = "returned" =>
        /\ \A j \in 1..Len(b_batches) : b_batches[j] # <<>>
        /\ Concat(b_batches) = b_entries

\* Several batches, one of them closed by the token budget.
C25_Witness ==
    /\ b_pc = "returned"
    /\ Len(b_batches) >= 3
    /\ \E j \in 1..(Len(b_batches) - 1) : Len(b_batches[j]) < b_target

\* C26: a batch whose estimated token total exceeds max_tokens is a single
\* entry that alone exceeds it; every such entry is in the output, alone in
\* its batch.
C26_BatchingTokenBound ==
    b_pc = "returned" =>
        /\ \A j \in 1..Len(b_batches) :
              BatchTokens(b_batches[j]) > b_max_tokens =>
                  /\ Len(b_batches[j]) = 1
                  /\ EstimateTokens(b_batches[j][1]) > b_max_tokens
        /\ \A i \in 1..Len(b_entries) :
              EstimateTokens(b_entries[i]) > b_max_tokens =>
                  \E j \in 1..Len(b_batches) : b_batches[j] = <<b_entries[i]>>

\* An oversized entry between entries that fit the budget.
C26_Witness ==
    /\ b_pc = "returned"
    /\ \E j \in 2..(Len(b_batches) - 1) :
          /\ Len(b_batches[j]) = 1
          /\ EstimateTokens(b_batches[j][1]) > b_max_tokens
          /\ BatchTokens(b_batches[j - 1]) <= b_max_tokens
          /\ BatchTokens(b_batches[j + 1]) <= b_max_tokens

\* C27: no batch holds more than target_batch_size entries, and when
\* max_tokens is at least the estimate of the whole input every batch but
\* the last holds exactly target_batch_size entries.
C27_BatchingCountBound ==
    b_pc = "returned" =>
        /\ \A j \in 1..Len(b_batches) : Len(b_batches[j]) <= b_target
        /\ BatchTokens(b_entries) <= b_max_tokens =>
              \A j \in 1..(Len(b_batches) - 1) : Len(b_batches[j]) = b_target

\* Five entries within the budget and a target of two: sizes 2, 2, 1.
C27_Witness ==
    /\ b_pc = "returned"
    /\ BatchTokens(b_entries) <= b_max_tokens
    /\ Len(b_batches) = 3
    /\ Len(b_batches[1]) = b_target /\ Len(b_batches[2]) = b_target
    /\ Len(b_batches[3]) < b_target

\* C29: for a correction list shorter than the entry list, the mapper
\* returns, for every position beyond the end of the correction list, the
\* record of no correction: the entry, its own text, an empty correction
\* list and needs_review false.
C29_ShortResponsePadded ==
    m_pc = "returned" =>
        \A i \in (Len(m_corrections) + 1)..Len(m_entries) :
            m_mapped[i] = [entry |-> m_entries[i],
                           corrected_text |-> m_entries[i].text,
                           corrections |-> <<>>, needs_review |-> FALSE]

\* A response that corrects and flags the first entry and says nothing of
\* the two after it.
C29_Witness ==
    /\ m_pc = "returned"
    /\ Len(m_corrections) = 1 /\ Len(m_entries) = 3
    /\ m_mapped[1].needs_review
    /\ m_mapped[1].corrected_text # m_entries[1].text
    /\ m_mapped[3].corrected_text = m_entries[3].text

\* C30: a call of the mapper on entries and a correction list of any
\* length does not raise and returns one record per entry, record i about
\* entry i; corrections beyond the last entry leave no record.
C30_OneRecordPerEntry ==
    /\ m_pc = "call" => ~map_raises(m_entries)
    /\ m_pc = "returned" =>
          /\ Len(m_mapped) = Len(m_entries)
          /\ \A i \in 1..Len(m_entries) : m_mapped[i].entry = m_entries[i]

\* More corrections than entries.
C30_Witness ==
    /\ m_pc = "returned"
    /\ Len(m_entries) >= 1
    /\ Len(m_corrections) > Len(m_entries)
    /\ Len(m_mapped) = Len(m_entries)

C22_NotFoundChangesNothing ==
    (lp.pc # "idle" /\ lp.file_id \notin Transcripts /\ lp.raised.step = "none") =>
        /\ lp.pc = "done"
        /\ lp.ret.kind = "not_found" /\ ~lp.ret.success
        /\ lp.batches = <<>> /\ lp.total_entries = 0
        /\ lastWrite = NoWrite
        /\ Len(store) = lp.base

\* The not-found result, with rows of another transcript in the table.
C22_Witness ==
    /\ lp.pc = "done" /\ lp.ret.kind = "not_found"
    /\ lp.file_id \notin Transcripts
    /\ store # <<>>

\* C23: a local pass that returns success leaves the status "processed";
\* the count it returns is the number of entries parsed, which are the rows
\* it inserted, in order, and the needs_openai count it returns is the
\* number of those rows flagged needs_openai.
C23_LocalPassCounts ==
    (lp.pc = "done" /\ lp.ret.success) =>
        LET entries == parse_srt_file(content[lp.file_id])
            n == Len(entries)
            first == Len(store) - n
        IN  /\ status[lp.file_id] = "processed"
            /\ lp.ret.count = n
            /\ first >= 0
            /\ ~lp.rerun => first = lp.base
            /\ \A j \in 1..n :
                  /\ store[first + j].raw_transcript_id = lp.file_id
                  /\ store[first + j].original_text = entries[j].text
                  /\ store[first + j].timestamp_start = entries[j].start_time
            /\ lp.ret.cost =
                  Cardinality({j \in 1..n : store[first + j].needs_openai})

\* Two batches, one of the two entries flagged.
C23_Witness ==
    /\ lp.pc = "done" /\ lp.ret.success
    /\ lp.ret.count = 2 /\ lp.ret.cost = 1
    /\ status[lp.file_id] = "processed"

\* The sum of api_cost over the rows with the given ids.
RECURSIVE SumApiCost(_, _)
SumApiCost(rows, ids) ==
    IF ids = {} THEN 0
    ELSE LET id == CHOOSE x \in ids : TRUE
         IN  rows[id].api_cost + SumApiCost(rows, ids \ {id})

\* The ids of the rows behind the batches whose remote correction was
\* obtained.
ObtainedIds(r) ==
    UNION {{r.entries_to_process[r.batches[j][i].index].id :
               i \in 1..Len(r.batches[j])} :
           j \in {k \in 1..Len(r.outcomes) : r.outcomes[k].ok}}

\* C24: a remote pass that returns after writing "completed" returns as
\* processed count the number of distinct rows it persisted a remote
\* correction on, all of them rows of batches whose correction was
\* obtained, and as cost the sum of the api_cost of those rows.
C24_RemotePassCounts ==
    \A p \in RProcs :
        (rp[p].pc = "done" /\ rp[p].ret.kind = "ok") =>
            /\ rp[p].updated \subseteq ObtainedIds(rp[p])
            /\ rp[p].ret.count = Cardinality(rp[p].updated)
            /\ rp[p].ret.cost = SumApiCost(store, rp[p].updated)

\* One batch failed, the correction of another was obtained, the pass
\* completed.
C24_Witness ==
    \E p \in RProcs :
        /\ rp[p].pc = "done" /\ rp[p].ret.kind = "ok"
        /\ rp[p].file_id \in Transcripts
        /\ status[rp[p].file_id] = "completed"
        /\ \E j, k \in 1..Len(rp[p].outcomes) :
              /\ ~rp[p].outcomes[j].ok
              /\ rp[p].outcomes[k].ok /\ rp[p].outcomes[k].corrections # <<>>

\* (timestamp_start, timestamp_end) of row i is not after that of row j.
NotAfter(rows, i, j) ==
    \/ rows[i].timestamp_start < rows[j].timestamp_start
    \/ /\ rows[i].timestamp_start = rows[j].timestamp_start
       /\ rows[i].timestamp_end <= rows[j].timestamp_end

\* C28: in every state the rows stored for a transcript, in storage order,
\* have non-decreasing (timestamp_start, timestamp_end) pairs.
C28_TimestampsMonotone ==
    \A i, j \in 1..Len(store) :
        (i < j /\ store[i].raw_transcript_id = store[j].raw_transcript_id) =>
            NotAfter(store, i, j)

\* C31: in a remote pass the status write to "openai_processing" (line 80)
\* is the first effect: the state the first load starts from is the one
\* that write produced, the status is "openai_processing" during every
\* load, remote call and entry update of the pass, and a pass that did not
\* make the write has loaded no entry, called no batch and updated no entry.
C31_OpeningWriteComesFirst ==
    LET r == rp[1]
    IN  /\ (r.pc = "load" /\ r.k = 1 /\ r.file_id \in Transcripts) =>
              /\ lastWrite.tid = r.file_id
              /\ lastWrite.to = "openai_processing" /\ lastWrite.line = 80
              /\ r.entries_to_process = <<>> /\ store = r.store0
        /\ (r.pc \in {"load", "batch", "finish"} /\ r.file_id \in Transcripts) =>
              status[r.file_id] = "openai_processing"
        /\ (r.pc = "except" /\ r.k = 0) =>
              /\ r.entries_to_process = <<>> /\ r.outcomes = <<>>
              /\ r.updated = {} /\ store = r.store0

\* A pass that loaded its entries and had a batch corrected remotely, the
\* status still being the one its opening write set.
C31_Witness ==
    /\ rp[1].pc = "batch" /\ rp[1].file_id \in Transcripts
    /\ Len(rp[1].outcomes) = 1 /\ rp[1].outcomes[1].ok
    /\ Len(rp[1].entries_to_process) = 2
    /\ status[rp[1].file_id] = "openai_processing"

\* The batches the local pass makes of the stored content of a transcript.
LocalBatchesOf(file_id) ==
    create_batches(parse_srt_file(content[file_id]), BATCH_SIZE, MAX_BATCH_TOKENS)

\* C32: a local pass makes one batch_insert_processed_entries call per
\* batch handled, in batch order, and when it completes call j carried
\* one entry per entry of batch j, in order and built from it; the rows
\* added are those of the calls.
C32_OneInsertPerBatch ==
    /\ lp.pc = "batch" => Len(lp.inserts) = lp.b - 1
    /\ (lp.pc = "done" /\ lp.ret.kind = "ok") =>
          LET batches == LocalBatchesOf(lp.file_id)
          IN  /\ Len(lp.inserts) = Len(batches)
              /\ \A j \in 1..Len(batches) :
                    /\ Len(lp.inserts[j]) = Len(batches[j])
                    /\ \A i \in 1..Len(batches[j]) :
                          /\ lp.inserts[j][i].original_text = batches[j][i].text
                          /\ lp.inserts[j][i].timestamp_start = batches[j][i].start_time
                          /\ lp.inserts[j][i].timestamp_end = batches[j][i].end_time
                          /\ lp.inserts[j][i].raw_transcript_id = lp.file_id
              /\ Len(store) = Len(lp.store0) + Len(Concat(lp.inserts))

\* A pass completed on a transcript of two batches, the first of two
\* entries.
C32_Witness ==
    /\ lp.pc = "done" /\ lp.ret.kind = "ok"
    /\ Len(lp.inserts) = 2
    /\ Len(lp.inserts[1]) = 2 /\ Len(lp.inserts[2]) = 1

\* A local pass called on a transcript in status "error" is handling the
\* batches of its content.
RetryInProgress ==
    lp.pc \in {"batch", "finish"} /\ lp.from_status = "error"

\* The pass called on the transcript in "error" has returned success with
\* the status "processed", or one of its calls raised.
RetryEnded ==
    /\ lp.from_status = "error"
    /\ \/ lp.raised.step # "none"
       \/ /\ lp.pc = "done" /\ lp.ret.success
          /\ status[lp.file_id] = "processed"

\* C33: a local pass called on a transcript in status "error" whose content
\* yields entries sets the status to "processing" and keeps it while it
\* handles the batches, and unless one of its calls raises it goes on to
\* return success with the status "processed".
C33_ErrorDoesNotBlockRetry ==
    /\ [](RetryInProgress => status[lp.file_id] = "processing")
    /\ RetryInProgress ~> RetryEnded

\* A pass called on a transcript in "error" returned with it "processed".
C33_Witness ==
    /\ lp.pc = "done" /\ lp.from_status = "error"
    /\ lp.raised.step = "none" /\ lp.ret.success
    /\ status[lp.file_id] = "processed"

\* The entries invocation p has passed to the remote corrector: entry i of
\* batch j, for every batch it has called the corrector with.
SentBy(p) ==
    {<<j, i>> : j \in 1..Len(rp[p].outcomes), i \in 1..BATCH_SIZE} \cap
    {x \in (1..Len(rp[p].batches)) \X (1..BATCH_SIZE) :
        x[2] <= Len(rp[p].batches[x[1]])}

\* C34: within one remote pass no Processed Entry is passed to the remote
\* corrector twice: any two entries sent, in the same batch or in two
\* batches, were built from different rows.
C34_EachEntrySentAtMostOnce ==
    \A p \in RProcs :
        \A x \in SentBy(p), y \in SentBy(p) :
            x # y => SourceOf(p, x[1], x[2]).id # SourceOf(p, y[1], y[2]).id

\* C35: every entry a remote pass passes to the remote corrector was built
\* from a row owned by the transcript the pass was called for.
C35_OnlyOwnEntriesSent ==
    \A p \in RProcs :
        \A x \in SentBy(p) :
            SourceOf(p, x[1], x[2]).raw_transcript_id = rp[p].file_id

\* C36: a remote pass that has returned to its caller left the status of
\* its transcript at "processed" (nothing to process), "completed" (the
\* batches were attempted) or "error" (its handler ran), never at
\* "openai_processing".
C36_ReturnLeavesSettledStatus ==
    \A p \in RProcs :
        (/\ rp[p].pc = "done" /\ rp[p].ret.kind # "raised"
         /\ rp[p].file_id \in Transcripts) =>
            /\ status[rp[p].file_id] \in {"processed", "completed", "error"}
            /\ rp[p].ret.kind = "no_entries" => status[rp[p].file_id] = "processed"
            /\ rp[p].ret.kind = "ok" => status[rp[p].file_id] = "completed"
            /\ rp[p].ret.kind = "error" => status[rp[p].file_id] = "error"

\* A pass returned from its handler after the status had been set to
\* "openai_processing" and an entry had been loaded.
C36_Witness ==
    \E p \in RProcs :
        /\ rp[p].pc = "done" /\ rp[p].ret.kind = "error"
        /\ rp[p].file_id \in Transcripts
        /\ rp[p].entries_to_process # <<>>
        /\ lastWrite.from = "openai_processing" /\ lastWrite.line = 143
        /\ status[rp[p].file_id] = "error"

\* C37: from the call of a local pass on, the rows that existed at the call
\* are unchanged and in place, and the rows added since are owned by the
\* transcript of the pass and copy, in order, the timestamps and the text
\* of the entries of its batches, with openai_processed false and api_cost
\* zero.
C37_LocalRowsCopyTheirSource ==
    lp.pc # "idle" =>
        LET n0 == Len(lp.store0)
        IN  /\ Len(store) >= n0
            /\ \A i \in 1..n0 : store[i] = lp.store0[i]
            /\ lp.file_id \notin Transcripts => Len(store) = n0
            /\ lp.file_id \in Transcripts =>
                  LET source == Concat(LocalBatchesOf(lp.file_id))
                  IN  /\ Len(store) - n0 <= Len(source)
                      /\ \A i \in 1..(Len(store) - n0) :
                            /\ store[n0 + i].raw_transcript_id = lp.file_id
                            /\ store[n0 + i].timestamp_start = source[i].start_time
                            /\ store[n0 + i].timestamp_end = source[i].end_time
                            /\ store[n0 + i].original_text = source[i].text
                            /\ ~store[n0 + i].openai_processed
                            /\ store[n0 + i].api_cost = 0

\* A pass completed that found rows of an earlier pass and added its own.
C37_Witness ==
    /\ lp.pc = "done" /\ lp.ret.kind = "ok"
    /\ Len(lp.store0) >= 2
    /\ Len(store) >= Len(lp.store0) + 2

\* C38: a call with retry_count <= 0 ends by raising the Exception of line
\* 135 having made no remote invocation and no sleep, and a call with
\* retry_count >= 1 never ends at line 135: it returns the corrections or
\* raises from the handler of its last attempt.
C38_GenericFailureOnlyWithoutAttempts ==
    /\ (c_retry_count <= 0 /\ c_pc \in {"returned", "raised"}) =>
          /\ c_pc = "raised"
          /\ c_result = [kind |-> "Exception", line |-> 135]
          /\ c_events = <<>> /\ c_failures = <<>>
    /\ (c_retry_count >= 1 /\ c_pc \in {"returned", "raised"}) =>
          /\ c_result.line \in {122, 128, 133}
          /\ c_pc = "raised" => c_result = RaisedFor(c_failures[Len(c_failures)])

\* A call with a negative retry_count has ended at line 135.
C38_Witness ==
    /\ c_retry_count < 0 /\ c_pc = "raised"
    /\ c_result.line = 135 /\ c_events = <<>>

====
